---- MODULE Spec2Model ----
(***************************************************************************)
(* Checkpoint / resume mechanism of ExperimentTemplate                     *)
(* (src/src/experiment.py).  One live experiment instance works on one     *)
(* output directory; the directory outlives the instance, so a new         *)
(* instance constructed later resumes from the checkpoints found there.    *)
(*                                                                         *)
(* File names and experiment names are sequences of tokens, so that the    *)
(* glob of _load_progress is a real prefix/suffix match.  Time is counted  *)
(* in ticks; a checkpoint file name carries the time in whole seconds, a   *)
(* file's modification time carries the tick of the write, and a write     *)
(* takes one tick: time passes only while a checkpoint is written.         *)
(***************************************************************************)
EXTENDS Integers, Sequences, FiniteSets, TLC

VARIABLES self, fs, now, last, auto_saves, clean, steps

vars == <<self, fs, now, last, auto_saves, clean, steps>>

(* ------------------------------ bounds --------------------------------- *)

\* the calls made on the output directory after the first construction
MaxSteps == 4
\* ticks per second of the timestamp in a default checkpoint name
TicksPerSecond == 2

(* ------------------------------ inputs --------------------------------- *)

\* experiment names; the second begins with the first followed by _progress_
ExperimentNames == { <<"demo">>, <<"demo", "_progress_", "x">> }

\* the <<save_interval, auto_save>> pairs a constructor call is given; without
\* auto_save the interval is never read
Configs == { <<0, TRUE>>, <<1, TRUE>>, <<2, TRUE>>, <<1, FALSE>> }

\* inputs of run_single, named after what the subclass hooks do with them
Inputs == {"ok", "process_raises", "generate_raises"}

\* where a save can hit a filesystem failure: opening the checkpoint file,
\* writing it, opening the sibling summary file, writing that file
SaveFaults == {"none", "pkl_open", "pkl_dump", "json_open", "json_dump"}

None == <<"None">>

\* file names a caller passes to save(filename)
CustomFilenames(name) == { name \o <<"_progress_", "manual", ".pkl">>, <<"backup", ".pkl">> }

(* --------------------------- subclass hooks ---------------------------- *)

\* Two concrete classes are instantiated. Plain defines the abstract methods
\* and keeps the validation hooks of the base class; Validating overrides the
\* two validation hooks as well. Both share process_input and generate_output.

\* validate_input of the base class: return True
validate_input(x) == TRUE

\* validate_input as overridden by the class Validating: rejects one input
Validating_validate_input(x) == x # "bad_input"

\* self.validate_input(input_data): the method of the instance's class
self_validate_input(s, x) == IF s.cls = "Validating" THEN Validating_validate_input(x) ELSE validate_input(x)

\* process_input of the subclass under test: raises on one input, otherwise
\* derives a value. The text of an exception, str(e), is a sequence of tokens,
\* as file names are
process_input(x) == IF x = "process_raises" THEN [raised |-> TRUE, error |-> <<"process_input failed">>] ELSE [raised |-> FALSE, value |-> <<"processed", x>>]

\* generate_output of the subclass under test: raises on one input, otherwise derives the output
generate_output(p) == IF p[2] = "generate_raises" THEN [raised |-> TRUE, error |-> <<"generate_output failed">>] ELSE [raised |-> FALSE, value |-> <<"output", p[2]>>]

\* validate_output of the base class: return True
validate_output(o) == TRUE

\* validate_output as overridden by the class Validating: rejects one output
Validating_validate_output(o) == o[2] # "bad_output"

\* self.validate_output(output_data): the method of the instance's class
self_validate_output(s, o) == IF s.cls = "Validating" THEN Validating_validate_output(o) ELSE validate_output(o)

(* ------------------------------ file names ----------------------------- *)

Digit(n) == <<"0", "1", "2", "3", "4", "5", "6", "7", "8", "9">>[n + 1]

\* datetime.now().isoformat(): the wall-clock stamps kept in the metadata are
\* not told apart
isoformat(t) == "isoformat"

\* datetime.now().strftime("%Y%m%d_%H%M%S"): second resolution, zero padded
strftime(t) == <<Digit(((t \div TicksPerSecond) \div 10) % 10), Digit((t \div TicksPerSecond) % 10)>>

\* f"{self.experiment_name}_progress_{timestamp}.pkl"
DefaultFilename(name, t) == name \o <<"_progress_">> \o strftime(t) \o <<".pkl">>

\* f"{self.experiment_name}_final.pkl"
FinalFilename(name) == name \o <<"_final", ".pkl">>

\* filepath.with_suffix('.json')
with_suffix_json(f) == SubSeq(f, 1, Len(f) - 1) \o <<".json">>

\* faulty variant of Pattern: every pickle file of the experiment matches
Pattern_AnySuffix(name) == name \o <<"*", ".pkl">>

\* f"{self.experiment_name}_progress_*.pkl"
Pattern(name) == name \o <<"_progress_", "*", ".pkl">>

RECURSIVE fnmatch(_, _)
\* glob matching of one path component: "*" matches any run of tokens
fnmatch(p, s) ==
    IF p = <<>> THEN s = <<>>
    ELSE IF Head(p) = "*" THEN fnmatch(Tail(p), s) \/ (s # <<>> /\ fnmatch(p, Tail(s)))
    ELSE s # <<>> /\ Head(s) = Head(p) /\ fnmatch(Tail(p), Tail(s))

\* list(self.output_dir.glob(pattern))
glob(dir, pattern) == { f \in DOMAIN dir : fnmatch(pattern, f) }

(* ------------------------------ filesystem ----------------------------- *)

\* the output directory: file name -> [mtime, content]
EmptyDir == [f \in {} |-> 0]

Directory == [fmt |-> "dir"]

\* what is left of a file whose writer failed after open(..., 'wb')
Truncated == [fmt |-> "truncated"]

\* open(path, 'w' / 'wb') and a complete dump: creates or replaces the file
write(dir, f, t, content) == (f :> [mtime |-> t, content |-> content]) @@ dir

\* Path.mkdir(parents=True, exist_ok=True): an existing directory is left alone
mkdir(dir, f, t) == IF f \in DOMAIN dir THEN dir ELSE write(dir, f, t, Directory)

\* dict.update(other): the keys of other win
update(d, other) == other @@ d

\* dict.get(key, default)
get(d, key, default) == IF key \in DOMAIN d THEN d[key] ELSE default

(* ------------------------------ construction --------------------------- *)

\* Path(output_dir): the one output directory all instances are given
OutputDir == <<"ExperimentResults">>

\* __init__ up to the call of _load_progress: the empty experiment state
NewInstance(cls, name, k, a, t) ==
    [ cls               |-> cls,
      experiment_name   |-> name,
      output_dir        |-> OutputDir,
      save_interval     |-> k,
      auto_save         |-> a,
      current_iteration |-> 0,
      total_iterations  |-> 0,
      results           |-> <<>>,
      metadata          |-> [experiment_name |-> name, start_time |-> isoformat(t), status |-> "initialized"] ]

\* init_logging, init_benchmark_dir
init_dirs(dir, t) == mkdir(mkdir(dir, <<"logs">>, t), <<"benchmarks">>, t)

\* the tokens of file names in the order of their first differing characters
TokenOrder == <<".json", ".pkl", "0", "1", "2", "3", "4", "5", "6", "7", "8", "9", "_final", "_progress_", "backup", "benchmarks", "demo", "logs", "manual", "x">>

Rank(tok) == CHOOSE i \in 1..Len(TokenOrder) : TokenOrder[i] = tok

RECURSIVE LexLess(_, _)
\* f < g as strings
LexLess(f, g) ==
    IF g = <<>> THEN FALSE
    ELSE IF f = <<>> THEN TRUE
    ELSE IF Head(f) = Head(g) THEN LexLess(Tail(f), Tail(g))
    ELSE Rank(Head(f)) < Rank(Head(g))

\* faulty variant of LatestFiles: the file with the greatest name
LatestFiles_ByName(dir, save_files) == { f \in save_files : \A g \in save_files : ~LexLess(f, g) }

\* the files among save_files with the greatest st_mtime; max() returns the
\* first of them in the order the directory listing happens to have
LatestFiles(dir, save_files) == { f \in save_files : \A g \in save_files : dir[g].mtime <= dir[f].mtime }

\* pickle.load(f): fails on anything that is not a complete pickle
PickleLoads(content) == content.fmt = "pickle"

\* faulty variant of Restore: the iteration counter is not restored
Restore_NoIteration(s, save_data) ==
    [s EXCEPT !.metadata = get(save_data, "metadata", s.metadata),
              !.results = get(save_data, "results", <<>>)]

\* the three assignments of _load_progress after a successful pickle.load
Restore(s, save_data) ==
    [s EXCEPT !.metadata = get(save_data, "metadata", s.metadata),
              !.results = get(save_data, "results", <<>>),
              !.current_iteration = get(save_data, "current_iteration", 0)]

\* variant of load_progress that falls back to another readable checkpoint
\* of the experiment when the latest one cannot be read
load_progress_Fallback(s, dir, latest_file) ==
    LET readable == { f \in glob(dir, Pattern(s.experiment_name)) : PickleLoads(dir[f].content) }
    IN  IF latest_file = None THEN [self |-> s, loaded |-> FALSE, from |-> None]
        ELSE IF PickleLoads(dir[latest_file].content)
             THEN [self |-> Restore(s, dir[latest_file].content.data), loaded |-> TRUE, from |-> latest_file]
             ELSE IF readable = {} THEN [self |-> s, loaded |-> FALSE, from |-> latest_file]
             ELSE [self |-> Restore(s, dir[CHOOSE f \in readable : TRUE].content.data), loaded |-> TRUE, from |-> latest_file]

\* _load_progress with latest_file already chosen (None: no file matched)
load_progress(s, dir, latest_file) ==
    IF latest_file = None THEN [self |-> s, loaded |-> FALSE, from |-> None]
    ELSE IF PickleLoads(dir[latest_file].content)
         THEN [self |-> Restore(s, dir[latest_file].content.data), loaded |-> TRUE, from |-> latest_file]
         ELSE [self |-> s, loaded |-> FALSE, from |-> latest_file]

\* the candidates _load_progress chooses latest_file from
Candidates(name, dir) ==
    IF glob(dir, Pattern(name)) = {} THEN {None} ELSE LatestFiles(dir, glob(dir, Pattern(name)))

(* --------------------------------- save -------------------------------- *)

\* the metadata.update of save
SaveMetadata(s, t) ==
    update(s.metadata, [last_save |-> isoformat(t), current_iteration |-> s.current_iteration, total_results |-> Len(s.results), status |-> "running"])

\* save_data, pickled into the checkpoint
SaveData(s) ==
    [metadata |-> s.metadata, results |-> s.results, current_iteration |-> s.current_iteration, experiment_name |-> s.experiment_name]

\* json_data, written to the sibling file
JsonData(s) ==
    [metadata |-> s.metadata, current_iteration |-> s.current_iteration, experiment_name |-> s.experiment_name, results_count |-> Len(s.results)]

\* the file name save writes to
SaveFilename(s, t, filename) == IF filename = None THEN DefaultFilename(s.experiment_name, t) ELSE filename

\* str(e) of the OSError raised by open(f): the errno text and the path
OpenErrorText(s, f) == <<"[Errno 28] No space left on device", ": '">> \o s.output_dir \o <<"/">> \o f \o <<"'">>

\* str(e) of the OSError raised while writing to an open file: the errno text
WriteErrorText == <<"[Errno 28] No space left on device">>

\* save(filename) at time t; fault says where the filesystem fails, if at all.
\* exc is the exception that leaves save ("none": it returned path) and msg
\* its text
save(s, dir, t, filename, fault) ==
    LET path == SaveFilename(s, t, filename)
        s1   == [s EXCEPT !.metadata = SaveMetadata(s, t)]
        pkl  == [fmt |-> "pickle", data |-> SaveData(s1)]
        json == [fmt |-> "json", data |-> JsonData(s1)]
    IN  CASE fault = "pkl_open"  -> [self |-> s1, fs |-> dir, now |-> t, exc |-> "OSError", msg |-> OpenErrorText(s1, path), path |-> path]
          [] fault = "pkl_dump"  -> [self |-> s1, fs |-> write(dir, path, t, Truncated), now |-> t + 1, exc |-> "OSError", msg |-> WriteErrorText, path |-> path]
          [] fault = "json_open" -> [self |-> s1, fs |-> write(dir, path, t, pkl), now |-> t + 1, exc |-> "OSError", msg |-> OpenErrorText(s1, with_suffix_json(path)), path |-> path]
          [] fault = "json_dump" -> [self |-> s1, fs |-> write(write(dir, path, t, pkl), with_suffix_json(path), t, Truncated), now |-> t + 1, exc |-> "OSError", msg |-> WriteErrorText, path |-> path]
          [] OTHER               -> [self |-> s1, fs |-> write(write(dir, path, t, pkl), with_suffix_json(path), t, json), now |-> t + 1, exc |-> "none", msg |-> None, path |-> path]

(* ------------------------------- run_single ---------------------------- *)

\* faulty variant of Steps: a rejected input is noticed only after the other
\* three hooks have run
Steps_NoShortCircuit(s, x) ==
    IF process_input(x).raised
    THEN [ok |-> FALSE, error |-> process_input(x).error, calls |-> <<"validate_input", "process_input">>]
    ELSE IF generate_output(process_input(x).value).raised
    THEN [ok |-> FALSE, error |-> generate_output(process_input(x).value).error, calls |-> <<"validate_input", "process_input", "generate_output">>]
    ELSE IF ~self_validate_input(s, x)
    THEN [ok |-> FALSE, error |-> <<"Input validation failed">>, calls |-> <<"validate_input", "process_input", "generate_output", "validate_output">>]
    ELSE IF ~self_validate_output(s, generate_output(process_input(x).value).value)
    THEN [ok |-> FALSE, error |-> <<"Output validation failed">>, calls |-> <<"validate_input", "process_input", "generate_output", "validate_output">>]
    ELSE [ok |-> TRUE, processed_input |-> process_input(x).value, output |-> generate_output(process_input(x).value).value,
          calls |-> <<"validate_input", "process_input", "generate_output", "validate_output">>]

\* the four steps of the try block, in order, up to the first failure;
\* calls lists the hooks that were invoked
Steps(s, x) ==
    IF ~self_validate_input(s, x)
    THEN [ok |-> FALSE, error |-> <<"Input validation failed">>, calls |-> <<"validate_input">>]
    ELSE IF process_input(x).raised
    THEN [ok |-> FALSE, error |-> process_input(x).error, calls |-> <<"validate_input", "process_input">>]
    ELSE IF generate_output(process_input(x).value).raised
    THEN [ok |-> FALSE, error |-> generate_output(process_input(x).value).error, calls |-> <<"validate_input", "process_input", "generate_output">>]
    ELSE IF ~self_validate_output(s, generate_output(process_input(x).value).value)
    THEN [ok |-> FALSE, error |-> <<"Output validation failed">>, calls |-> <<"validate_input", "process_input", "generate_output", "validate_output">>]
    ELSE [ok |-> TRUE, processed_input |-> process_input(x).value, output |-> generate_output(process_input(x).value).value,
          calls |-> <<"validate_input", "process_input", "generate_output", "validate_output">>]

\* faulty variant of SuccessRecord: stamped with the counter after the increment
SuccessRecord_PostIncrement(s, x, st) ==
    [iteration |-> s.current_iteration + 1, input |-> x, processed_input |-> st.processed_input, output |-> st.output, status |-> "success"]

\* the result entry of the success path (timestamps are left out of records)
SuccessRecord(s, x, st) ==
    [iteration |-> s.current_iteration, input |-> x, processed_input |-> st.processed_input, output |-> st.output, status |-> "success"]

\* the error_result of the except block
ErrorRecord(s, x, e) ==
    [iteration |-> s.current_iteration, input |-> x, error |-> e, status |-> "error"]

\* faulty variant of RecordResult: the new record replaces the earlier ones
RecordResult_Replaces(s, r) == [s EXCEPT !.results = <<r>>, !.current_iteration = @ + 1]

\* self.results.append(result); self.current_iteration += 1
RecordResult(s, r) == [s EXCEPT !.results = Append(@, r), !.current_iteration = @ + 1]

\* faulty variant of RecordError: the counter is not incremented on the error path
RecordError_NoIncrement(s, r) == [s EXCEPT !.results = Append(@, r)]

\* self.results.append(error_result); self.current_iteration += 1
RecordError(s, r) == [s EXCEPT !.results = Append(@, r), !.current_iteration = @ + 1]

\* faulty variant of AutoSaveCheck: the interval is tested before the increment
AutoSaveCheck_PreIncrement(s) ==
    IF ~s.auto_save THEN "skip"
    ELSE IF s.save_interval = 0 THEN "ZeroDivisionError"
    ELSE IF (s.current_iteration - 1) % s.save_interval = 0 THEN "save" ELSE "skip"

\* self.auto_save and self.current_iteration % self.save_interval == 0;
\* the modulo raises when save_interval is 0
AutoSaveCheck(s) ==
    IF ~s.auto_save THEN "skip"
    ELSE IF s.save_interval = 0 THEN "ZeroDivisionError"
    ELSE IF s.current_iteration % s.save_interval = 0 THEN "save" ELSE "skip"

\* except Exception as e: whatever was raised inside the try block ends here
Except(s, dir, t, x, e, calls, saves) ==
    [self |-> RecordError(s, ErrorRecord(s, x, e)), fs |-> dir, now |-> t, exc |-> "none",
     ret |-> ErrorRecord(s, x, e), calls |-> calls, saves |-> saves]

\* the success path after the result entry is built: record, auto-save, return
Succeed(s, dir, t, x, st, fault) ==
    LET r  == SuccessRecord(s, x, st)
        s1 == RecordResult(s, r)
        sv == save(s1, dir, t, None, fault)
    IN  CASE AutoSaveCheck(s1) = "skip" ->
               [self |-> s1, fs |-> dir, now |-> t, exc |-> "none", ret |-> r, calls |-> st.calls, saves |-> <<>>]
          [] AutoSaveCheck(s1) = "ZeroDivisionError" ->
               Except(s1, dir, t, x, <<"integer modulo by zero">>, st.calls, <<>>)
          [] AutoSaveCheck(s1) = "save" /\ sv.exc = "none" ->
               [self |-> sv.self, fs |-> sv.fs, now |-> sv.now, exc |-> "none", ret |-> r, calls |-> st.calls, saves |-> <<"none">>]
          [] OTHER ->
               Except(sv.self, sv.fs, sv.now, x, sv.msg, st.calls, <<sv.exc>>)

\* run_single(input_data); exc is the exception that reaches the caller
run_single(s, dir, t, x, fault) ==
    IF Steps(s, x).ok THEN Succeed(s, dir, t, x, Steps(s, x), fault)
    ELSE Except(s, dir, t, x, Steps(s, x).error, Steps(s, x).calls, <<>>)

(* ------------------------------ get_summary ---------------------------- *)

\* [r for r in self.results if r.get("status") == status]
WithStatus(results, status) == SelectSeq(results, LAMBDA r : r.status = status)

\* a / b on two ints: the quotient is kept as the pair <<a, b>>; raises when b
\* is 0
TrueDiv(a, b) ==
    IF b = 0 THEN [raised |-> TRUE, error |-> <<"division by zero">>] ELSE [raised |-> FALSE, value |-> <<a, b>>]

\* the summary dictionary for a given success_rate
Summary(s, rate) ==
    [ experiment_name    |-> s.experiment_name,
      current_iteration  |-> s.current_iteration,
      total_results      |-> Len(s.results),
      successful_results |-> Len(WithStatus(s.results, "success")),
      error_results      |-> Len(WithStatus(s.results, "error")),
      success_rate       |-> rate,
      start_time         |-> get(s.metadata, "start_time", None),
      last_save          |-> get(s.metadata, "last_save", None),
      status             |-> get(s.metadata, "status", "unknown") ]

\* faulty variant of get_summary: the quotient is taken without looking at
\* whether there are results
get_summary_Unguarded(s) ==
    LET q == TrueDiv(Len(WithStatus(s.results, "success")), Len(s.results))
    IN  IF q.raised
        THEN [self |-> s, exc |-> "ZeroDivisionError", ret |-> None]
        ELSE [self |-> s, exc |-> "none", ret |-> Summary(s, q.value)]

\* get_summary(): the quotient is taken only if self.results is not empty
get_summary(s) ==
    LET q == IF s.results # <<>>
             THEN TrueDiv(Len(WithStatus(s.results, "success")), Len(s.results))
             ELSE [raised |-> FALSE, value |-> 0]
    IN  IF q.raised
        THEN [self |-> s, exc |-> "ZeroDivisionError", ret |-> None]
        ELSE [self |-> s, exc |-> "none", ret |-> Summary(s, q.value)]

(* ---------------------------- reset and finish ------------------------- *)

\* faulty variant of reset: the records are kept
reset_KeepsResults(s, t) ==
    [s EXCEPT !.current_iteration = 0,
              !.metadata = update(@, [start_time |-> isoformat(t), status |-> "reset"])]

\* reset()
reset(s, t) ==
    [s EXCEPT !.current_iteration = 0, !.results = <<>>,
              !.metadata = update(@, [start_time |-> isoformat(t), status |-> "reset"])]

\* the metadata.update of finish
FinishMetadata(s, t) ==
    update(s.metadata, [end_time |-> isoformat(t), status |-> "finished", total_iterations |-> s.current_iteration])

\* finish(): stamp the metadata, then save under the fixed name
finish(s, dir, t, fault) ==
    save([s EXCEPT !.metadata = FinishMetadata(s, t)], dir, t, FinalFilename(s.experiment_name), fault)

(* ------------------------------ state machine -------------------------- *)

\* __init__(experiment_name, output_dir, save_interval, auto_save) over the
\* directory dir at time t, with latest_file the checkpoint max() picked
construct(cls, name, k, a, dir, t, latest_file) ==
    LET ld == load_progress(NewInstance(cls, name, k, a, t), init_dirs(dir, t), latest_file)
    IN  [self |-> ld.self, fs |-> init_dirs(dir, t), loaded |-> ld.loaded, from |-> ld.from]

\* what the last call was and how it ended: op and its argument, the exception
\* that reached the caller ("none": the call returned), the returned value,
\* how each save it made ended and, of a construction, the checkpoint it
\* read and the call that the earlier instance ended with
Call(op, arg, exc, ret, saves, from, after) ==
    [op |-> op, arg |-> arg, exc |-> exc, ret |-> ret, saves |-> saves, from |-> from, after |-> after]

\* a first instance is constructed over an empty output directory
Fresh(cls, name, k, a) ==
    /\ self = construct(cls, name, k, a, EmptyDir, 0, None).self
    /\ fs = construct(cls, name, k, a, EmptyDir, 0, None).fs
    /\ now = 0
    /\ last = Call("construct", name, "none", None, <<>>, None, None)
    /\ auto_saves = 0
    /\ clean = TRUE
    /\ steps = 0

\* the process ends and a new instance is constructed over the same directory
Construct(cls, name, k, a) ==
    \E latest_file \in Candidates(name, init_dirs(fs, now)) :
        LET c == construct(cls, name, k, a, fs, now, latest_file)
        IN  /\ steps < MaxSteps
            /\ steps' = steps + 1
            /\ self' = c.self
            /\ fs' = c.fs
            /\ now' = now
            /\ last' = Call("construct", name, "none", None, <<>>, c.from, [op |-> last.op, arg |-> last.arg, exc |-> last.exc])
            /\ auto_saves' = 0
            /\ clean' = ~c.loaded

\* run_single(x); a fault is drawn only for a call that saves
RunSingle(x, fault) ==
    LET r == run_single(self, fs, now, x, fault)
    IN  /\ steps < MaxSteps
        /\ steps' = steps + 1
        /\ fault # "none" => r.saves # <<>>
        /\ self' = r.self
        /\ fs' = r.fs
        /\ now' = r.now
        /\ last' = [calls |-> r.calls] @@ Call("run_single", x, r.exc, r.ret, r.saves, None, None)
        /\ auto_saves' = IF r.saves = <<"none">> THEN auto_saves + 1 ELSE auto_saves
        /\ clean' = (clean /\ r.ret.status = "success")

\* save() or save(filename)
Save(filename, fault) ==
    LET r == save(self, fs, now, filename, fault)
    IN  /\ steps < MaxSteps
        /\ steps' = steps + 1
        /\ self' = r.self
        /\ fs' = r.fs
        /\ now' = r.now
        /\ last' = Call("save", filename, r.exc, IF r.exc = "none" THEN r.path ELSE None, <<r.exc>>, None, None)
        /\ UNCHANGED <<auto_saves, clean>>

\* faulty variant of Reset: the emptied state is written to a checkpoint
Reset_SavesState ==
    LET r == save(reset(self, now), fs, now, None, "none")
    IN  /\ steps < MaxSteps
        /\ steps' = steps + 1
        /\ self' = r.self
        /\ fs' = r.fs
        /\ now' = r.now
        /\ last' = Call("reset", None, "none", None, <<>>, None, None)
        /\ clean' = FALSE
        /\ UNCHANGED auto_saves

\* reset()
Reset ==
    /\ steps < MaxSteps
    /\ steps' = steps + 1
    /\ self' = reset(self, now)
    /\ last' = Call("reset", None, "none", None, <<>>, None, None)
    /\ clean' = FALSE
    /\ UNCHANGED <<fs, now, auto_saves>>

\* finish()
Finish(fault) ==
    LET r == finish(self, fs, now, fault)
    IN  /\ steps < MaxSteps
        /\ steps' = steps + 1
        /\ self' = r.self
        /\ fs' = r.fs
        /\ now' = r.now
        /\ last' = Call("finish", None, r.exc, None, <<r.exc>>, None, None)
        /\ UNCHANGED <<auto_saves, clean>>

\* get_summary()
GetSummary ==
    LET r == get_summary(self)
    IN  /\ steps < MaxSteps
        /\ steps' = steps + 1
        /\ self' = r.self
        /\ last' = Call("get_summary", None, r.exc, r.ret, <<>>, None, None)
        /\ UNCHANGED <<fs, now, auto_saves, clean>>

(* One process: an instance constructed over an empty directory and the    *)
(* calls made on it, with every kind of input and every save failure.      *)

Init == \E c \in Configs : Fresh("Plain", <<"demo">>, c[1], c[2])

Next ==
    \/ \E x \in Inputs, fault \in SaveFaults : RunSingle(x, fault)
    \/ \E fault \in SaveFaults : Save(None, fault)
    \/ Reset
    \/ \E fault \in SaveFaults : Finish(fault)

Spec == Init /\ [][Next]_vars

(* Resume: instances of either name constructed one after the other over   *)
(* the same directory, saving under default and custom file names.         *)

ResumeInputs == {"ok", "process_raises"}

ResumeFaults == {"none", "pkl_dump"}

ResumeInit == \E name \in ExperimentNames, a \in BOOLEAN : Fresh("Plain", name, 1, a)

ResumeNext ==
    \/ \E name \in ExperimentNames, a \in BOOLEAN : Construct("Plain", name, 1, a)
    \/ \E x \in ResumeInputs, fault \in ResumeFaults : RunSingle(x, fault)
    \/ \E filename \in {None} \cup CustomFilenames(self.experiment_name), fault \in ResumeFaults : Save(filename, fault)
    \/ Reset
    \/ Finish("none")

ResumeSpec == ResumeInit /\ [][ResumeNext]_vars

(* Summary: one process that also asks for the summary between its calls.  *)

SummaryConfigs == { <<1, TRUE>>, <<2, TRUE>>, <<1, FALSE>> }

SummaryInputs == {"ok", "process_raises", "generate_raises"}

SummaryInit == \E c \in SummaryConfigs : Fresh("Plain", <<"demo">>, c[1], c[2])

SummaryNext ==
    \/ \E x \in SummaryInputs, fault \in ResumeFaults : RunSingle(x, fault)
    \/ Save(None, "none")
    \/ Reset
    \/ Finish("none")
    \/ GetSummary

SummarySpec == SummaryInit /\ [][SummaryNext]_vars

(* Hooks: one process whose instance is of the class that overrides the    *)
(* validation hooks, given inputs that fail at each of the four steps.     *)

HooksConfigs == { <<2, TRUE>>, <<1, FALSE>> }

HooksInputs == Inputs \cup {"bad_input", "bad_output"}

HooksInit == \E c \in HooksConfigs : Fresh("Validating", <<"demo">>, c[1], c[2])

HooksNext ==
    \/ \E x \in HooksInputs, fault \in ResumeFaults : RunSingle(x, fault)
    \/ Save(None, "none")
    \/ Reset

HooksSpec == HooksInit /\ [][HooksNext]_vars

(* -------------------------------- claims ------------------------------- *)

\* a step of the state machine that is a call of op
Called(op) == steps' = steps + 1 /\ last'.op = op

\* the checkpoints construction chooses among for the experiment called name
Matching(name) == glob(fs, Pattern(name))

\* the result sequence holds a success and an error record
Mixed(results) ==
    /\ \E i \in 1..Len(results) : results[i].status = "success"
    /\ \E i \in 1..Len(results) : results[i].status = "error"

\* C1: in every state reached from a fresh instance by run_single calls with
\* succeeding and failing inputs (and by the other calls on the instance),
\* the number of records equals the iteration counter
C1_LenIsIteration == Len(self.results) = self.current_iteration

\* C1 witness: three records, successes and errors among them, the last
\* written by a run_single call
C1_Witness ==
    /\ last.op = "run_single"
    /\ self.current_iteration = 3
    /\ Mixed(self.results)

\* C2: every call of run_single increases current_iteration by exactly 1 and
\* appends exactly one record, whatever the outcome of the call
C2_OneRecordPerCall ==
    [][Called("run_single") =>
          /\ self'.current_iteration = self.current_iteration + 1
          /\ Len(self'.results) = Len(self.results) + 1]_vars

\* C3: run_single never raises; it returns the record it appended last, with
\* status "error" when a step failed (input rejected, process_input raised,
\* generate_output raised, output rejected) and status "success" otherwise
C3_OutcomeIsRecorded ==
    last.op = "run_single" =>
        /\ last.exc = "none"
        /\ last.ret = self.results[Len(self.results)]
        /\ last.ret.status = (IF Steps(self, last.arg).ok THEN "success" ELSE "error")

\* C4: a filesystem failure during a save reaches the caller on every save
\* path: save(), finish() and the automatic save inside run_single
C4_SaveFailurePropagates ==
    (\E i \in 1..Len(last.saves) : last.saves[i] # "none") => last.exc # "none"

\* C5: with auto_save enabled, a run_single call that leaves current_iteration
\* at a multiple of save_interval performed a save, whether it ended in a
\* success record or in an error record
C5_SaveAtEveryMultiple ==
    (/\ last.op = "run_single"
     /\ self.auto_save
     /\ self.save_interval >= 1
     /\ self.current_iteration % self.save_interval = 0) => last.saves # <<>>

\* C6: on a fresh instance with save_interval k >= 1, after n successful
\* run_single calls the automatic saves number n \div k with auto_save and 0
\* without, and a call saves exactly when it brings the counter to a multiple
\* of k
C6_AutoSaveCount ==
    (clean /\ self.save_interval >= 1) =>
        /\ auto_saves = (IF self.auto_save THEN self.current_iteration \div self.save_interval ELSE 0)
        /\ last.op = "run_single" =>
              (last.saves = <<"none">> <=> (self.auto_save /\ self.current_iteration % self.save_interval = 0))

\* C6 witness: three successful calls with save_interval 2 and auto_save:
\* one automatic save
C6_Witness ==
    /\ clean
    /\ last.op = "run_single"
    /\ self.auto_save
    /\ self.save_interval = 2
    /\ self.current_iteration = 3
    /\ auto_saves = 1

\* C7: a save() under the default file name followed by the construction of
\* an instance with the same experiment name gives the new instance the
\* iteration counter and the results of the saving instance
C7_RoundTrip ==
    [][(/\ last.op = "save"
        /\ last.arg = None
        /\ last.exc = "none"
        /\ Called("construct")
        /\ last'.arg = self.experiment_name) =>
          /\ self'.current_iteration = self.current_iteration
          /\ self'.results = self.results]_vars

\* C7 witness: an instance constructed right after a save() of an instance
\* of the same name, from the checkpoint that save wrote, which holds
\* records, with an older checkpoint of the experiment that holds other
\* results still in the directory
C7_Witness ==
    /\ last.op = "construct"
    /\ last.after = [op |-> "save", arg |-> None, exc |-> "none"]
    /\ last.arg = self.metadata.experiment_name
    /\ last.from = DefaultFilename(last.arg, now - 1)
    /\ fs[last.from].mtime = now - 1
    /\ self.results # <<>>
    /\ self.results = fs[last.from].content.data.results
    /\ \E g \in Matching(last.arg) :
          /\ fs[g].mtime < fs[last.from].mtime
          /\ PickleLoads(fs[g].content)
          /\ fs[g].content.data.results # self.results

\* C8: when several checkpoints match, construction reads the one with the
\* latest modification time and takes metadata, results and iteration
\* counter from it
C8_LatestByMtime ==
    (last.op = "construct" /\ Matching(last.arg) # {}) =>
        /\ last.from \in Matching(last.arg)
        /\ \A g \in Matching(last.arg) : fs[g].mtime <= fs[last.from].mtime
        /\ PickleLoads(fs[last.from].content) =>
              /\ self.metadata = fs[last.from].content.data.metadata
              /\ self.results = fs[last.from].content.data.results
              /\ self.current_iteration = fs[last.from].content.data.current_iteration

\* C8 witness: the checkpoint read is not the one with the greatest name,
\* and the one with the greatest name holds other results
C8_Witness ==
    /\ last.op = "construct"
    /\ last.from # None
    /\ PickleLoads(fs[last.from].content)
    /\ \E g \in Matching(last.arg) :
          /\ LexLess(last.from, g)
          /\ \A h \in Matching(last.arg) : ~LexLess(g, h)
          /\ PickleLoads(fs[g].content)
          /\ fs[g].content.data.results # self.results

\* C9: construction succeeds whatever the checkpoints are: with no matching
\* file, or with a latest checkpoint that cannot be read, the instance is
\* the empty one, no field taken from a checkpoint
C9_EmptyWhenNothingLoads ==
    (last.op = "construct" /\ (Matching(last.arg) = {} \/ ~PickleLoads(fs[last.from].content))) =>
        /\ last.exc = "none"
        /\ self.current_iteration = 0
        /\ self.results = <<>>
        /\ self.metadata = [experiment_name |-> last.arg, start_time |-> isoformat(now), status |-> "initialized"]

\* C9 witness: the latest checkpoint is truncated while an older, readable
\* checkpoint of the experiment holding records is in the directory
C9_Witness ==
    /\ last.op = "construct"
    /\ last.from # None
    /\ fs[last.from].content = Truncated
    /\ \E g \in Matching(last.arg) : PickleLoads(fs[g].content) /\ fs[g].content.data.results # <<>>

\* C10: after finish() returns, the checkpoint named {experiment_name}_final
\* exists and the status is "finished" in memory and in that checkpoint
C10_FinishedAfterFinish ==
    (last.op = "finish" /\ last.exc = "none") =>
        /\ FinalFilename(self.experiment_name) \in DOMAIN fs
        /\ self.metadata.status = "finished"
        /\ fs[FinalFilename(self.experiment_name)].content.data.metadata.status = "finished"

\* C11: "finished" is terminal: on an instance whose finish() has stamped the
\* metadata (end_time is set), the status is "finished" after finish's own
\* save and after every later save, run_single and reset
C11_FinishedIsTerminal ==
    "end_time" \in DOMAIN self.metadata => self.metadata.status = "finished"

\* C12: reset() leaves current_iteration 0, no results and status "reset",
\* and keeps experiment_name, output_dir, save_interval and auto_save
C12_ResetFrame ==
    [][Called("reset") =>
          /\ self'.current_iteration = 0
          /\ self'.results = <<>>
          /\ self'.metadata.status = "reset"
          /\ self'.experiment_name = self.experiment_name
          /\ self'.output_dir = self.output_dir
          /\ self'.save_interval = self.save_interval
          /\ self'.auto_save = self.auto_save]_vars

\* C12 witness: reset() on an instance that had saved a checkpoint holding
\* records
C12_Witness ==
    /\ last.op = "reset"
    /\ "total_results" \in DOMAIN self.metadata
    /\ self.metadata.total_results > 0
    /\ self.results = <<>>

\* C13: get_summary() raises nothing, reports
\* 0 <= successful_results <= total_results, reports success_rate 0 when
\* there are no results, and leaves the instance and the directory as they
\* were
C13_SummaryIsPure ==
    [][Called("get_summary") =>
          /\ last'.exc = "none"
          /\ 0 <= last'.ret.successful_results
          /\ last'.ret.successful_results <= last'.ret.total_results
          /\ last'.ret.total_results = Len(self.results)
          /\ self.results = <<>> => last'.ret.success_rate = 0
          /\ self' = self
          /\ fs' = fs]_vars

\* C13 witness: a summary asked for after reset() emptied the results, the
\* case in which the quotient would divide by zero
C13_Witness ==
    /\ last.op = "get_summary"
    /\ last.exc = "none"
    /\ self.results = <<>>
    /\ self.metadata.status = "reset"
    /\ last.ret.success_rate = 0

\* C14: run_single invokes validate_input, process_input, generate_output,
\* validate_output in that order and stops after the first one that fails:
\* a rejected input, a raising process_input, a raising generate_output or
\* a rejected output
C14_HooksInOrder ==
    last.op = "run_single" =>
        LET order == <<"validate_input", "process_input", "generate_output", "validate_output">>
            n == Len(last.calls)
            x == last.arg
            failed(i) == CASE i = 1 -> ~self_validate_input(self, x)
                           [] i = 2 -> process_input(x).raised
                           [] i = 3 -> generate_output(process_input(x).value).raised
                           [] i = 4 -> ~self_validate_output(self, generate_output(process_input(x).value).value)
        IN  /\ n \in 1..4
            /\ last.calls = SubSeq(order, 1, n)
            /\ \A i \in 1..(n - 1) : ~failed(i)
            /\ n < 4 => failed(n)

\* C14 witness: a call stopped by a rejected input after validate_input alone,
\* on an instance whose earlier calls went through all four hooks, stopped at
\* a raising process_input and stopped at a rejected output
C14_Witness ==
    /\ last.op = "run_single"
    /\ last.arg = "bad_input"
    /\ last.calls = <<"validate_input">>
    /\ Len(self.results) = 4
    /\ self.results[1].status = "success"
    /\ \A i \in 2..4 : self.results[i].status = "error"
    /\ self.results[2].error = <<"process_input failed">>
    /\ self.results[3].error = <<"Output validation failed">>
    /\ self.results[4].error = <<"Input validation failed">>

\* C15: results is append-only across run_single, save, get_summary and
\* finish: the sequence before the call is a prefix of the sequence after it
C15_AppendOnly ==
    [][(\E op \in {"run_single", "save", "get_summary", "finish"} : Called(op)) =>
          /\ Len(self.results) <= Len(self'.results)
          /\ SubSeq(self'.results, 1, Len(self.results)) = self.results]_vars

\* C15 witness: finish() on an instance holding a success and an error
\* record, both still there
C15_Witness ==
    /\ last.op = "finish"
    /\ Len(self.results) = 2
    /\ Mixed(self.results)

\* C17: the record at position i (from 0) carries iteration i
C17_IterationIsPosition ==
    \A i \in 1..Len(self.results) : self.results[i].iteration = i - 1

\* C17 witness: a call whose auto-save failed: the success record and the
\* error record it left are stamped 0 and 1
C17_Witness ==
    /\ last.op = "run_single"
    /\ last.saves = <<"OSError">>
    /\ Len(self.results) = 2
    /\ self.results[1].status = "success" /\ self.results[1].iteration = 0
    /\ self.results[2].status = "error" /\ self.results[2].iteration = 1

\* C16: reset() leaves the files of the output directory as they are, and an
\* instance of the experiment constructed right after a reset() takes the
\* iteration counter and the results of the latest checkpoint, not the
\* emptied state
C16_ResetIsNotPersisted ==
    [][/\ Called("reset") => fs' = fs
       /\ (/\ last.op = "reset"
           /\ Called("construct")
           /\ last'.arg = self.experiment_name
           /\ Matching(last'.arg) # {}
           /\ PickleLoads(fs[last'.from].content)) =>
              /\ last'.from \in LatestFiles(fs, Matching(last'.arg))
              /\ self'.current_iteration = fs[last'.from].content.data.current_iteration
              /\ self'.results = fs[last'.from].content.data.results
              /\ self'.metadata.status # "reset"]_vars

\* C16 witness: an instance constructed right after a reset() holds the
\* records of the experiment's checkpoint written before the reset
C16_Witness ==
    /\ last.op = "construct"
    /\ last.after = [op |-> "reset", arg |-> None, exc |-> "none"]
    /\ last.from # None
    /\ PickleLoads(fs[last.from].content)
    /\ fs[last.from].content.data.experiment_name = last.arg
    /\ self.results # <<>>
    /\ self.current_iteration = Len(self.results)

\* a file name of the form {name}_progress_*.pkl
ProgressNamed(name, f) ==
    /\ Len(f) >= Len(name) + 2
    /\ SubSeq(f, 1, Len(name) + 1) = name \o <<"_progress_">>
    /\ f[Len(f)] = ".pkl"

\* C18: construction never reads the experiment's {name}_final checkpoint nor
\* a file whose name is not of the form {name}_progress_*: it reads a latest
\* file of that form if there is one, and otherwise starts empty
C18_FinalIsNeverRead ==
    last.op = "construct" =>
        LET progress == { f \in DOMAIN fs : ProgressNamed(last.arg, f) }
        IN  /\ last.from # FinalFilename(last.arg)
            /\ last.from # None => ProgressNamed(last.arg, last.from)
            /\ progress # {} => last.from \in LatestFiles(fs, progress)
            /\ progress = {} =>
                  /\ last.from = None
                  /\ self.current_iteration = 0
                  /\ self.results = <<>>

\* C18 witness: constructed right after finish(), the instance holds the
\* records of a progress checkpoint while the final checkpoint of the
\* experiment, written later, holds more
C18_Witness ==
    /\ last.op = "construct"
    /\ last.after = [op |-> "finish", arg |-> None, exc |-> "none"]
    /\ last.from # None
    /\ PickleLoads(fs[last.from].content)
    /\ self.results = fs[last.from].content.data.results
    /\ FinalFilename(last.arg) \in DOMAIN fs
    /\ fs[FinalFilename(last.arg)].mtime > fs[last.from].mtime
    /\ Len(fs[FinalFilename(last.arg)].content.data.results) > Len(self.results)

\* C19: an instance only ever reads checkpoints written under its own
\* experiment name, whatever other experiments share the directory
C19_Isolation ==
    (last.op = "construct" /\ last.from # None /\ PickleLoads(fs[last.from].content)) =>
        fs[last.from].content.data.experiment_name = last.arg

====
